---------------------------- MODULE Spec2Model ----------------------------
(***************************************************************************)
(* A model of ooo-view (src/main.go): the reset flags of parseFlags, the   *)
(* loopback OAuth2 flow of getConfig/getToken, the query window and the    *)
(* per-member fan-out of main, the duration filter of                      *)
(* getOutOfOfficeEvents, and the presence grid and week blocks of          *)
(* displayCalendar.                                                        *)
(*                                                                         *)
(* Goroutines are processes with a position (pc, stdin, server, task).     *)
(* An unbuffered channel is the queue of its blocked senders; a select     *)
(* that finds no case ready parks, and the first event that makes a case   *)
(* ready (a send, the closing of ctx.Done) decides the case it takes.      *)
(***************************************************************************)
EXTENDS Integers, Sequences, FiniteSets, TLC

(***************************************************************************)
(* Bounds of the model.                                                    *)
(***************************************************************************)
\* Times of the token cache check: 0..MaxTime.
MaxTime == 2
\* Callback requests in one authorization attempt.
MaxCallbacks == 2
\* Clock units in a day (4: a unit is six hours).
UnitsPerDay == 4
\* Whole days an event or a minimum duration may span.
MaxDays == 2
\* Events the provider returns for one calendar.
MaxItems == 2
\* Calendars the group may resolve to.
MaxMembers == 3
\* Days of the clock on which main may compute its window.
MaxClockDays == 8
\* The --weeks flag: -MaxWeeks..MaxWeeks.
MaxWeeks == 2
\* Calls of displayCalendar with the same arguments.
MaxRenders == 2

\* The calendars: a smaller number is the lexicographically smaller address.
Members == 1..MaxMembers

(***************************************************************************)
(* The keyring (src/main.go:31-35) and what it holds.                      *)
(***************************************************************************)
clientSecretKey == "client-secret"
tokenKey == "oauth-token"

\* keyring.Get's ErrNotFound, as the entry of a key that is not set.
NotFound == [fmt |-> "absent", id |-> "", expiry |-> 0]
\* A stored string that json.Unmarshal rejects.
Garbage == [fmt |-> "garbage", id |-> "", expiry |-> 0]

\* oauth2.Token, as far as getToken reads it: which token it is and its Expiry.
Token(id, expiry) == [id |-> id, expiry |-> expiry]
NoToken == Token("", 0)

\* json.Marshal(tok) followed by string(tokenBytes).
Marshal(t) == [fmt |-> "json", id |-> t.id, expiry |-> t.expiry]
\* json.Unmarshal([]byte(tokenJSON), &token): the error and the token.
UnmarshalOk(blob) == blob.fmt = "json"
Unmarshal(blob) == Token(blob.id, blob.expiry)

TokenBlobs == {NotFound, Garbage} \cup {Marshal(Token("cached", e)) : e \in 0..MaxTime}
\* The client secret entry: absent, a client_secret.json, or a string
\* google.ConfigFromJSON rejects.
SecretBlobs == {"absent", "good", "notsecret"}
\* What the user may paste on standard input.
InputLines == {"good", "notjson", "notsecret"}

VARIABLES
    keyring,        \* the system keyring: key -> stored value
    keyring0,       \* the keyring when the program started
    now,            \* time.Now() at the cache check
    cancelled,      \* ctx.Done() is closed
    cancelAt,       \* where the coordinating flow was when cancel() ran
    pc,             \* the coordinating flow's position in getConfig/getToken
    sel,            \* the case the current select took
    stdin,          \* the goroutine reading standard input
    inputChan,      \* getConfig: senders blocked on inputChan
    cfgErrChan,     \* getConfig: senders blocked on errChan
    clientSecret,   \* getConfig's clientSecret
    cfgRet,         \* what getConfig returned
    state,          \* the nonce of this attempt
    codeChan,       \* getToken: senders blocked on codeChan
    errChan,        \* getToken: senders blocked on errChan
    server,         \* the loopback http.Server
    callbacks,      \* callback requests the handler has been run for
    authCode,       \* getToken's authCode
    tok,            \* the token config.Exchange returned
    ret,            \* what getToken returned
    hist,           \* what getToken has done so far (record of counters)
    providerItems,  \* the provider's events.Items of each calendar
    minDuration,    \* cfg.MinDuration
    timezone,       \* cfg.TimeZone
    aggPc,          \* main's position from getGroupFreebusy to displayCalendar
    calendars,      \* the calendars getGroupFreebusy resolved
    toSpawn,        \* calendars main's range loop has still to visit
    task,           \* each member-fetch goroutine's position
    events,         \* each goroutine's events, err of getOutOfOfficeEvents
    mu,             \* the mutex: the goroutine holding it, 0 when free
    wg,             \* the WaitGroup's counter
    eventsByPerson, \* the shared mapping
    eventsByDate,   \* displayCalendar's presence grid: <<date, person>> pairs
    weeksAhead,     \* cfg.WeeksAhead
    clock,          \* time.Now() as main computes the query window
    window,         \* main's now and end: the query window
    currentDate,    \* displayCalendar's currentDate
    output,         \* what displayCalendar printed: the week blocks of each call
    calls,          \* calls of displayCalendar still to be made
    resetSecret,    \* the --reset-secret flag
    resetToken,     \* the --reset-token flag
    fin,            \* getOutOfOfficeEvents called on its own: the arguments
    fout            \* and what it returned

authVars == <<keyring, keyring0, now, cancelled, cancelAt, pc, sel, stdin,
              inputChan, cfgErrChan, clientSecret, cfgRet, state, codeChan,
              errChan, server, callbacks, authCode, tok, ret, hist>>

renderVars == <<weeksAhead, clock, window, currentDate, output, calls>>

aggVars == <<providerItems, minDuration, timezone, aggPc, calendars, toSpawn,
             task, events, mu, wg, eventsByPerson, eventsByDate, renderVars>>

flagVars == <<resetSecret, resetToken>>

filterVars == <<fin, fout>>

vars == <<authVars, aggVars, filterVars, flagVars>>

NoSel == [case |-> "none", val |-> ""]
NoRet == [kind |-> "none", tok |-> NoToken, err |-> ""]
RetToken(t) == [kind |-> "token", tok |-> t, err |-> ""]
RetError(e) == [kind |-> "error", tok |-> NoToken, err |-> e]

Hist0 == [listens |-> 0, serverStarts |-> 0, browserOpens |-> 0,
          exchangeCalls |-> 0, exchange |-> "none", tokenSets |-> 0,
          store |-> "none", shutdownSpawned |-> 0, shutdownCalls |-> 0,
          badState |-> FALSE, codes |-> 0, late |-> 0, deletes |-> 0,
          warnings |-> 0]

Terminal == {"returned", "fatal"}

\* A time.Time that has not been set.
ZeroTime == [instant |-> 0, off |-> 0]

\* main's now and end before they are computed.
NoWindow == [now |-> ZeroTime, end |-> ZeroTime]

\* Where the flow is before main has called signal.Notify.
BeforeNotify == {"idle", "pf_reset_secret", "pf_reset_secret_token",
                 "pf_reset_token", "parsed"}

\* getOutOfOfficeEvents has not returned yet.
Pending == [events |-> <<>>, err |-> "pending"]

\* The parts of the program a specification does not run stay idle.
AuthIdle ==
    /\ keyring = <<>> /\ keyring0 = <<>> /\ now = 0
    /\ cancelled = FALSE /\ cancelAt = "never" /\ pc = "idle"
    /\ sel = NoSel /\ stdin = "none" /\ inputChan = <<>>
    /\ cfgErrChan = <<>> /\ clientSecret = "absent" /\ cfgRet = "none"
    /\ state = "" /\ codeChan = <<>> /\ errChan = <<>> /\ server = "none"
    /\ callbacks = 0 /\ authCode = "" /\ tok = NoToken /\ ret = NoRet
    /\ hist = Hist0
    /\ resetSecret = FALSE /\ resetToken = FALSE

AggIdle ==
    /\ providerItems = <<>> /\ minDuration = 0 /\ timezone = "UTC"
    /\ aggPc = "idle" /\ calendars = {} /\ toSpawn = {}
    /\ task = [m \in Members |-> "none"]
    /\ events = [m \in Members |-> Pending]
    /\ mu = 0 /\ wg = 0 /\ eventsByPerson = <<>>
    /\ eventsByDate = {}
    /\ weeksAhead = 0 /\ clock = 0 /\ window = NoWindow
    /\ currentDate = ZeroTime /\ output = <<>> /\ calls = 0

FilterIdle ==
    /\ fin = <<>> /\ fout = [events |-> <<>>, err |-> "idle"]

\* The two entries the program keeps under serviceName.
Keyring(secret, token) ==
    [k \in {clientSecretKey, tokenKey} |->
        IF k = clientSecretKey THEN secret ELSE token]

AuthInit ==
    /\ keyring \in {Keyring(s, t) : s \in SecretBlobs, t \in TokenBlobs}
    /\ keyring0 = keyring
    /\ now \in 0..MaxTime
    /\ cancelled = FALSE
    /\ cancelAt = "never"
    /\ pc = "cfg_get"
    /\ sel = NoSel
    /\ stdin = "none"
    /\ inputChan = <<>>
    /\ cfgErrChan = <<>>
    /\ clientSecret = "absent"
    /\ cfgRet = "none"
    /\ state = ""
    /\ codeChan = <<>>
    /\ errChan = <<>>
    /\ server = "none"
    /\ callbacks = 0
    /\ authCode = ""
    /\ tok = NoToken
    /\ ret = NoRet
    /\ hist = Hist0
    /\ resetSecret = FALSE
    /\ resetToken = FALSE
    /\ AggIdle
    /\ FilterIdle

(***************************************************************************)
(* parseFlags: the reset flags (src/main.go:63-84).                        *)
(***************************************************************************)
\* The entry of a key that is not set.
Absent(key) == IF key = clientSecretKey THEN "absent" ELSE NotFound

\* keyring.Delete(serviceName, key): the entry is removed, or the key is
\* not set and the call returns ErrNotFound.
DeleteErr(store, key) == IF store[key] = Absent(key) THEN "ErrNotFound" ELSE ""
Delete(store, key) == [store EXCEPT ![key] = Absent(key)]

\* The token left alone when the client secret is reset.
SecretResetKeepsToken(flag) == FALSE

\* Whether the block of --reset-secret also deletes the token
\* (src/main.go:70-75).
SecretResetAlsoToken(flag) == flag

ResetInit ==
    /\ keyring \in {Keyring(s, t) : s \in SecretBlobs, t \in TokenBlobs}
    /\ keyring0 = keyring
    /\ resetSecret \in BOOLEAN
    /\ resetToken \in BOOLEAN
    /\ pc = "pf_reset_secret"
    /\ now = 0 /\ cancelled = FALSE /\ cancelAt = "never"
    /\ sel = NoSel /\ stdin = "none" /\ inputChan = <<>>
    /\ cfgErrChan = <<>> /\ clientSecret = "absent" /\ cfgRet = "none"
    /\ state = "" /\ codeChan = <<>> /\ errChan = <<>> /\ server = "none"
    /\ callbacks = 0 /\ authCode = "" /\ tok = NoToken /\ ret = NoRet
    /\ hist = Hist0
    /\ AggIdle
    /\ FilterIdle

\* One call of keyring.Delete with its warning or its message, then on to
\* the next statement of parseFlags.
ResetDelete(at, flag, key, next) ==
    /\ pc = at
    /\ IF flag
         THEN /\ keyring' = Delete(keyring, key)
              /\ hist' = [hist EXCEPT
                            !.deletes = @ + 1,
                            !.warnings = @ + (IF DeleteErr(keyring, key) # ""
                                                THEN 1 ELSE 0)]
         ELSE UNCHANGED <<keyring, hist>>
    /\ pc' = next
    /\ UNCHANGED <<keyring0, now, cancelled, cancelAt, sel, stdin, inputChan,
                   cfgErrChan, clientSecret, cfgRet, state, codeChan, errChan,
                   server, callbacks, authCode, tok, ret, aggVars, filterVars,
                   flagVars>>

\* if *resetSecret: the client secret is deleted (src/main.go:64-69) ...
ResetSecretDelete ==
    ResetDelete("pf_reset_secret", resetSecret, clientSecretKey,
                "pf_reset_secret_token")

\* ... and the token with it (src/main.go:70-75).
ResetSecretTokenDelete ==
    ResetDelete("pf_reset_secret_token", SecretResetAlsoToken(resetSecret),
                tokenKey, "pf_reset_token")

\* if *resetToken: the token is deleted (src/main.go:78-84); parseFlags
\* returns cfg to main.
ResetTokenDelete ==
    ResetDelete("pf_reset_token", resetToken, tokenKey, "parsed")

ResetNext == ResetSecretDelete \/ ResetSecretTokenDelete \/ ResetTokenDelete

SpecReset == ResetInit /\ [][ResetNext]_vars

CtxDoneWakesConfigOnly(p) == p = "cfg_parked"

\* Whether closing ctx.Done() decides the select the flow is parked in.
CtxDoneWakes(p) == p \in {"cfg_parked", "gt_parked"}

Cancel ==
    /\ UNCHANGED <<aggVars, filterVars, flagVars>>
    /\ ~cancelled
    /\ pc \notin Terminal \cup BeforeNotify
    /\ cancelled' = TRUE
    /\ cancelAt' = pc
    /\ IF CtxDoneWakes(pc)
         THEN /\ sel' = [case |-> "done", val |-> ""]
              /\ pc' = IF pc = "cfg_parked" THEN "cfg_selected" ELSE "gt_selected"
         ELSE UNCHANGED <<sel, pc>>
    /\ UNCHANGED <<keyring, keyring0, now, stdin, inputChan, cfgErrChan,
                   clientSecret, cfgRet, state, codeChan, errChan, server,
                   callbacks, authCode, tok, ret, hist>>

(***************************************************************************)
(* getConfig (src/main.go:94-153).                                         *)
(***************************************************************************)
\* google.ConfigFromJSON accepts the string.
ConfigFromJSONOk(secret) == secret = "good"
\* json.Unmarshal into a map accepts the string.
IsJSON(secret) == secret \in {"good", "notsecret"}

CfgFail ==
    /\ cfgRet' = "error"
    /\ pc' = "fatal"

\* keyring.Get(serviceName, clientSecretKey) and, when it fails, the start
\* of the goroutine that reads standard input.
CfgGet ==
    /\ UNCHANGED <<aggVars, filterVars, flagVars>>
    /\ pc = "cfg_get"
    /\ IF keyring[clientSecretKey] # "absent"
         THEN /\ clientSecret' = keyring[clientSecretKey]
              /\ pc' = "cfg_parse"
              /\ UNCHANGED stdin
         ELSE /\ stdin' = "scan"
              /\ pc' = "cfg_select"
              /\ UNCHANGED clientSecret
    /\ UNCHANGED <<keyring, keyring0, now, cancelled, cancelAt, sel, inputChan,
                   cfgErrChan, cfgRet, state, codeChan, errChan, server,
                   callbacks, authCode, tok, ret, hist>>

\* A send on one of getConfig's channels: handed to the select parked on
\* it, or else the sender blocks.
CfgSend(ch, v, blocked) ==
    IF pc = "cfg_parked"
      THEN /\ sel' = [case |-> ch, val |-> v]
           /\ pc' = "cfg_selected"
           /\ stdin' = "exited"
           /\ UNCHANGED <<inputChan, cfgErrChan>>
      ELSE /\ inputChan' = IF ch = "input" THEN Append(inputChan, v) ELSE inputChan
           /\ cfgErrChan' = IF ch = "err" THEN Append(cfgErrChan, v) ELSE cfgErrChan
           /\ stdin' = blocked
           /\ UNCHANGED <<sel, pc>>

\* The reader goroutine: scanner.Scan() returns a line, a read error, or
\* end of input with no line (then nothing is sent).
StdinScan ==
    /\ UNCHANGED <<aggVars, filterVars, flagVars>>
    /\ stdin = "scan"
    /\ \/ \E line \in InputLines : CfgSend("input", line, "sendInput")
       \/ CfgSend("err", "read error", "sendErr")
       \/ /\ stdin' = "exited"
          /\ UNCHANGED <<sel, pc, inputChan, cfgErrChan>>
    /\ UNCHANGED <<keyring, keyring0, now, cancelled, cancelAt, clientSecret,
                   cfgRet, state, codeChan, errChan, server, callbacks,
                   authCode, tok, ret, hist>>

\* The select of getConfig evaluated: one ready case, chosen at random, or
\* the flow parks.
CfgSelect ==
    /\ UNCHANGED <<aggVars, filterVars, flagVars>>
    /\ pc = "cfg_select"
    /\ \/ /\ inputChan # <<>>
          /\ sel' = [case |-> "input", val |-> Head(inputChan)]
          /\ inputChan' = Tail(inputChan)
          /\ stdin' = "exited"
          /\ pc' = "cfg_selected"
          /\ UNCHANGED cfgErrChan
       \/ /\ cfgErrChan # <<>>
          /\ sel' = [case |-> "err", val |-> Head(cfgErrChan)]
          /\ cfgErrChan' = Tail(cfgErrChan)
          /\ stdin' = "exited"
          /\ pc' = "cfg_selected"
          /\ UNCHANGED inputChan
       \/ /\ cancelled
          /\ sel' = [case |-> "done", val |-> ""]
          /\ pc' = "cfg_selected"
          /\ UNCHANGED <<inputChan, cfgErrChan, stdin>>
       \/ /\ inputChan = <<>> /\ cfgErrChan = <<>> /\ ~cancelled
          /\ pc' = "cfg_parked"
          /\ UNCHANGED <<sel, inputChan, cfgErrChan, stdin>>
    /\ UNCHANGED <<keyring, keyring0, now, cancelled, cancelAt, clientSecret,
                   cfgRet, state, codeChan, errChan, server, callbacks,
                   authCode, tok, ret, hist>>

\* The body of the case the select took (src/main.go:123-145).
CfgSelected ==
    /\ UNCHANGED <<aggVars, filterVars, flagVars>>
    /\ pc = "cfg_selected"
    /\ \/ /\ sel.case = "input"
          /\ \/ /\ ~IsJSON(sel.val) \/ ~ConfigFromJSONOk(sel.val)
                /\ CfgFail
                /\ UNCHANGED <<keyring, clientSecret>>
             \/ /\ IsJSON(sel.val) /\ ConfigFromJSONOk(sel.val)
                /\ \/ /\ keyring' = [keyring EXCEPT ![clientSecretKey] = sel.val]
                      /\ clientSecret' = sel.val
                      /\ pc' = "cfg_parse"
                      /\ UNCHANGED cfgRet
                   \/ /\ CfgFail   \* keyring.Set failed
                      /\ UNCHANGED <<keyring, clientSecret>>
       \/ /\ sel.case \in {"err", "done"}
          /\ CfgFail
          /\ UNCHANGED <<keyring, clientSecret>>
    /\ sel' = NoSel
    /\ UNCHANGED <<keyring0, now, cancelled, cancelAt, stdin, inputChan,
                   cfgErrChan, state, codeChan, errChan, server, callbacks,
                   authCode, tok, ret, hist>>

\* google.ConfigFromJSON on the stored or pasted secret, and the return.
CfgParse ==
    /\ UNCHANGED <<aggVars, filterVars, flagVars>>
    /\ pc = "cfg_parse"
    /\ IF ConfigFromJSONOk(clientSecret)
         THEN /\ cfgRet' = "config"
              /\ pc' = "gt_state"
         ELSE CfgFail
    /\ UNCHANGED <<keyring, keyring0, now, cancelled, cancelAt, sel, stdin,
                   inputChan, cfgErrChan, clientSecret, state, codeChan,
                   errChan, server, callbacks, authCode, tok, ret, hist>>

(***************************************************************************)
(* getToken (src/main.go:163-269).                                         *)
(***************************************************************************)
\* What a callback request may carry in its query.
States == {"nonce", "other"}
Codes == {"", "genuine", "forged"}

\* A token expiring at this very instant counted as unexpired.
ExpiryNotBefore(expiry, t) == expiry >= t

\* token.Expiry.After(time.Now())
ExpiryAfter(expiry, t) == expiry > t

\* The cached token is returned: it is stored, deserializable and unexpired.
CacheUsable(blob, t) ==
    /\ blob # NotFound
    /\ UnmarshalOk(blob)
    /\ ExpiryAfter(Unmarshal(blob).expiry, t)

GtReturn(r) ==
    /\ ret' = r
    /\ pc' = "returned"

\* generateRandomState(): rand.Read fills the nonce or fails.
GtState ==
    /\ UNCHANGED <<aggVars, filterVars, flagVars>>
    /\ pc = "gt_state"
    /\ \/ /\ state' = "nonce"
          /\ pc' = "gt_cache"
          /\ UNCHANGED ret
       \/ /\ GtReturn(RetError("unable to generate state parameter"))
          /\ UNCHANGED state
    /\ UNCHANGED <<keyring, keyring0, now, cancelled, cancelAt, sel, stdin,
                   inputChan, cfgErrChan, clientSecret, cfgRet, codeChan,
                   errChan, server, callbacks, authCode, tok, hist>>

\* The cache check: keyring.Get, json.Unmarshal, Expiry.After(time.Now()).
GtCache ==
    /\ UNCHANGED <<aggVars, filterVars, flagVars>>
    /\ pc = "gt_cache"
    /\ IF CacheUsable(keyring[tokenKey], now)
         THEN GtReturn(RetToken(Unmarshal(keyring[tokenKey])))
         ELSE /\ pc' = "gt_listen"
              /\ UNCHANGED ret
    /\ UNCHANGED <<keyring, keyring0, now, cancelled, cancelAt, sel, stdin,
                   inputChan, cfgErrChan, clientSecret, cfgRet, state,
                   codeChan, errChan, server, callbacks, authCode, tok, hist>>

\* net.Listen("tcp", "127.0.0.1:0"), the port read, listener.Close().
GtListen ==
    /\ UNCHANGED <<aggVars, filterVars, flagVars>>
    /\ pc = "gt_listen"
    /\ \/ /\ hist' = [hist EXCEPT !.listens = @ + 1]
          /\ pc' = "gt_serve"
          /\ UNCHANGED ret
       \/ /\ GtReturn(RetError("unable to get random port"))
          /\ UNCHANGED hist
    /\ UNCHANGED <<keyring, keyring0, now, cancelled, cancelAt, sel, stdin,
                   inputChan, cfgErrChan, clientSecret, cfgRet, state,
                   codeChan, errChan, server, callbacks, authCode, tok>>

\* The server is built and the goroutine calling ListenAndServe is started.
GtServe ==
    /\ UNCHANGED <<aggVars, filterVars, flagVars>>
    /\ pc = "gt_serve"
    /\ server' = "spawned"
    /\ hist' = [hist EXCEPT !.serverStarts = @ + 1]
    /\ pc' = "gt_browser"
    /\ UNCHANGED <<keyring, keyring0, now, cancelled, cancelAt, sel, stdin,
                   inputChan, cfgErrChan, clientSecret, cfgRet, state,
                   codeChan, errChan, callbacks, authCode, tok, ret>>

\* openBrowser(authURL) (src/main.go:271-284).
GtBrowser ==
    /\ UNCHANGED <<aggVars, filterVars, flagVars>>
    /\ pc = "gt_browser"
    /\ \/ /\ hist' = [hist EXCEPT !.browserOpens = @ + 1]
          /\ pc' = "gt_select"
          /\ UNCHANGED ret
       \/ /\ GtReturn(RetError("unable to open browser"))
          /\ UNCHANGED hist
    /\ UNCHANGED <<keyring, keyring0, now, cancelled, cancelAt, sel, stdin,
                   inputChan, cfgErrChan, clientSecret, cfgRet, state,
                   codeChan, errChan, server, callbacks, authCode, tok>>

\* A send on one of getToken's channels: handed to the select parked on it,
\* or else the sender blocks.
GtSend(ch, v) ==
    IF pc = "gt_parked"
      THEN /\ sel' = [case |-> ch, val |-> v]
           /\ pc' = "gt_selected"
           /\ UNCHANGED <<codeChan, errChan>>
      ELSE /\ codeChan' = IF ch = "code" THEN Append(codeChan, v) ELSE codeChan
           /\ errChan' = IF ch = "err" THEN Append(errChan, v) ELSE errChan
           /\ UNCHANGED <<sel, pc>>

\* server.ListenAndServe() in its goroutine: it binds the port again and
\* serves, or fails and sends the error on errChan.
ServerListen ==
    /\ UNCHANGED <<aggVars, filterVars, flagVars>>
    /\ server = "spawned"
    /\ \/ /\ server' = "serving"
          /\ UNCHANGED <<sel, pc, codeChan, errChan>>
       \/ /\ server' = "failed"
          /\ GtSend("err", "server error")
    /\ UNCHANGED <<keyring, keyring0, now, cancelled, cancelAt, stdin,
                   inputChan, cfgErrChan, clientSecret, cfgRet, state,
                   callbacks, authCode, tok, ret, hist>>

\* The channel and the value the handler sends for a request.
HandlerSend(st, code, nonce) ==
    IF st # nonce THEN <<"err", "invalid state parameter">>
    ELSE IF code = "" THEN <<"err", "no code received">>
    ELSE <<"code", code>>

\* One callback request served by the handler (src/main.go:199-213), up to
\* its channel send.  The server runs every request in a goroutine of its
\* own; http.TimeoutHandler answers the client after 30 s and leaves the
\* handler blocked in its send.
Callback ==
    /\ UNCHANGED <<aggVars, filterVars, flagVars>>
    /\ server = "serving"
    /\ callbacks < MaxCallbacks
    /\ \E st \in States, code \in Codes :
          LET m == HandlerSend(st, code, state) IN
          /\ GtSend(m[1], m[2])
          /\ hist' = [hist EXCEPT !.badState = @ \/ (st # state),
                                  !.codes = @ + (IF m[1] = "code" THEN 1 ELSE 0),
                                  !.late = @ + (IF pc \in Terminal THEN 1 ELSE 0)]
    /\ callbacks' = callbacks + 1
    /\ UNCHANGED <<keyring, keyring0, now, cancelled, cancelAt, stdin,
                   inputChan, cfgErrChan, clientSecret, cfgRet, state, server,
                   authCode, tok, ret>>

\* The select of getToken evaluated: one ready case, chosen at random, or
\* the flow parks.
GtSelect ==
    /\ UNCHANGED <<aggVars, filterVars, flagVars>>
    /\ pc = "gt_select"
    /\ \/ /\ codeChan # <<>>
          /\ sel' = [case |-> "code", val |-> Head(codeChan)]
          /\ codeChan' = Tail(codeChan)
          /\ pc' = "gt_selected"
          /\ UNCHANGED errChan
       \/ /\ errChan # <<>>
          /\ sel' = [case |-> "err", val |-> Head(errChan)]
          /\ errChan' = Tail(errChan)
          /\ pc' = "gt_selected"
          /\ UNCHANGED codeChan
       \/ /\ cancelled
          /\ sel' = [case |-> "done", val |-> ""]
          /\ pc' = "gt_selected"
          /\ UNCHANGED <<codeChan, errChan>>
       \/ /\ codeChan = <<>> /\ errChan = <<>> /\ ~cancelled
          /\ pc' = "gt_parked"
          /\ UNCHANGED <<sel, codeChan, errChan>>
    /\ UNCHANGED <<keyring, keyring0, now, cancelled, cancelAt, stdin,
                   inputChan, cfgErrChan, clientSecret, cfgRet, state, server,
                   callbacks, authCode, tok, ret, hist>>

\* The body of the case the select took (src/main.go:237-243).
GtSelected ==
    /\ UNCHANGED <<aggVars, filterVars, flagVars>>
    /\ pc = "gt_selected"
    /\ \/ /\ sel.case = "code"
          /\ authCode' = sel.val
          /\ pc' = "gt_exchange"
          /\ UNCHANGED ret
       \/ /\ sel.case = "err"
          /\ GtReturn(RetError(sel.val))
          /\ UNCHANGED authCode
       \/ /\ sel.case = "done"
          /\ GtReturn(RetError("context canceled"))
          /\ UNCHANGED authCode
    /\ sel' = NoSel
    /\ UNCHANGED <<keyring, keyring0, now, cancelled, cancelAt, stdin,
                   inputChan, cfgErrChan, clientSecret, cfgRet, state,
                   codeChan, errChan, server, callbacks, tok, hist>>

\* config.Exchange(ctx, authCode) is called: the request to the token
\* endpoint is in flight.
GtExchange ==
    /\ UNCHANGED <<aggVars, filterVars, flagVars>>
    /\ pc = "gt_exchange"
    /\ hist' = [hist EXCEPT !.exchangeCalls = @ + 1]
    /\ pc' = "gt_exchanging"
    /\ UNCHANGED <<keyring, keyring0, now, cancelled, cancelAt, sel, stdin,
                   inputChan, cfgErrChan, clientSecret, cfgRet, state,
                   codeChan, errChan, server, callbacks, authCode, tok, ret>>

\* The error of config.Exchange ignored.
AfterExchangeUnchecked(ok) == "gt_store"

\* Where getToken goes when config.Exchange has returned.
AfterExchange(ok) == IF ok THEN "gt_store" ELSE "returned"

\* config.Exchange returns: a token, or an error (always an error once the
\* request's context is cancelled).
GtExchanged ==
    /\ UNCHANGED <<aggVars, filterVars, flagVars>>
    /\ pc = "gt_exchanging"
    /\ \/ /\ ~cancelled
          /\ \E e \in 0..MaxTime : tok' = Token("fresh", e)
          /\ hist' = [hist EXCEPT !.exchange = "ok"]
          /\ pc' = AfterExchange(TRUE)
          /\ ret' = IF pc' = "returned"
                      THEN RetError("unable to retrieve token from web") ELSE ret
       \/ /\ hist' = [hist EXCEPT !.exchange = "fail"]
          /\ pc' = AfterExchange(FALSE)
          /\ ret' = IF pc' = "returned"
                      THEN RetError("unable to retrieve token from web") ELSE ret
          /\ UNCHANGED tok
    /\ UNCHANGED <<keyring, keyring0, now, cancelled, cancelAt, sel, stdin,
                   inputChan, cfgErrChan, clientSecret, cfgRet, state,
                   codeChan, errChan, server, callbacks, authCode>>

\* Where getToken goes when json.Marshal and keyring.Set have returned.
AfterStore(ok) == IF ok THEN "gt_return" ELSE "returned"

\* json.Marshal(tok) and keyring.Set(serviceName, tokenKey, ...).
GtStore ==
    /\ UNCHANGED <<aggVars, filterVars, flagVars>>
    /\ pc = "gt_store"
    /\ \/ /\ keyring' = [keyring EXCEPT ![tokenKey] = Marshal(tok)]
          /\ hist' = [hist EXCEPT !.tokenSets = @ + 1, !.store = "ok"]
          /\ pc' = AfterStore(TRUE)
       \/ /\ hist' = [hist EXCEPT !.store = "fail"]
          /\ pc' = AfterStore(FALSE)
          /\ UNCHANGED keyring
    /\ ret' = IF pc' = "returned" THEN RetError("unable to store token") ELSE ret
    /\ UNCHANGED <<keyring0, now, cancelled, cancelAt, sel, stdin, inputChan,
                   cfgErrChan, clientSecret, cfgRet, state, codeChan, errChan,
                   server, callbacks, authCode, tok>>

\* The goroutine that will call server.Shutdown is started and tok returned.
GtReturnTok ==
    /\ UNCHANGED <<aggVars, filterVars, flagVars>>
    /\ pc = "gt_return"
    /\ hist' = [hist EXCEPT !.shutdownSpawned = @ + 1]
    /\ GtReturn(RetToken(tok))
    /\ UNCHANGED <<keyring, keyring0, now, cancelled, cancelAt, sel, stdin,
                   inputChan, cfgErrChan, clientSecret, cfgRet, state,
                   codeChan, errChan, server, callbacks, authCode, tok>>

\* server.Shutdown(shutdownCtx) in the background goroutine.
ServerShutdown ==
    /\ UNCHANGED <<aggVars, filterVars, flagVars>>
    /\ hist.shutdownSpawned > hist.shutdownCalls
    /\ server' = "closed"
    /\ hist' = [hist EXCEPT !.shutdownCalls = @ + 1]
    /\ UNCHANGED <<keyring, keyring0, now, cancelled, cancelAt, pc, sel, stdin,
                   inputChan, cfgErrChan, clientSecret, cfgRet, state,
                   codeChan, errChan, callbacks, authCode, tok, ret>>

\* The loopback port of the attempt: not chosen yet; chosen and free, the
\* listener that found it being closed (src/main.go:187-192); bound by the
\* server (ListenAndServe); lost, the server having failed to bind it; or
\* released by server.Shutdown.
PortState ==
    IF hist.listens = 0 THEN "unchosen"
    ELSE CASE server = "serving" -> "bound"
           [] server = "closed" -> "released"
           [] server = "failed" -> "lost"
           [] OTHER -> "free"

\* The steps of the coordinating flow (the goroutine running main).
MainStep ==
    \/ CfgGet \/ CfgSelect \/ CfgSelected \/ CfgParse
    \/ GtState \/ GtCache \/ GtListen \/ GtServe \/ GtBrowser
    \/ GtSelect \/ GtSelected \/ GtExchange \/ GtExchanged \/ GtStore
    \/ GtReturnTok

AuthNext ==
    \/ Cancel
    \/ CfgGet \/ StdinScan \/ CfgSelect \/ CfgSelected \/ CfgParse
    \/ GtState \/ GtCache \/ GtListen \/ GtServe \/ GtBrowser
    \/ ServerListen \/ Callback
    \/ GtSelect \/ GtSelected \/ GtExchange \/ GtExchanged \/ GtStore
    \/ GtReturnTok \/ ServerShutdown

SpecAuth == AuthInit /\ [][AuthNext]_vars

\* The Go scheduler runs every runnable goroutine: the coordinating flow
\* takes its next step whenever it has one.
SpecAuthFair == SpecAuth /\ WF_vars(MainStep)

(***************************************************************************)
(* Properties of the authorization flow.                                   *)
(***************************************************************************)
\* The token entry the program started with is stored but unusable: it
\* does not deserialize, or its expiry is not after the current time.
StaleCache ==
    \/ keyring0[tokenKey].fmt = "garbage"
    \/ /\ keyring0[tokenKey].fmt = "json"
       /\ keyring0[tokenKey].expiry <= now

\* The token entry the program started with deserializes and is unexpired.
FreshCache ==
    /\ keyring0[tokenKey].fmt = "json"
    /\ keyring0[tokenKey].expiry > now

\* C1: once a callback whose state differs from the nonce has arrived,
\* config.Exchange is never called, no token is written to the keyring and
\* getToken returns an error.
C1_StateMismatchFailsAttempt ==
    hist.badState =>
        /\ hist.exchangeCalls = 0
        /\ hist.tokenSets = 0
        /\ (pc = "returned" => ret.kind = "error")

\* C2: with a stale cached token, a token getToken returns is never the
\* cached one: it is the token of an exchange made with an authorization
\* code received on the loopback responder.
C2_StaleCacheNeverReturned ==
    (StaleCache /\ ret.kind = "token") =>
        /\ ret.tok # Unmarshal(keyring0[tokenKey])
        /\ ret.tok = tok
        /\ hist.exchange = "ok"
        /\ authCode # ""
        /\ hist.codes > 0

C2_Witness ==
    /\ keyring0[tokenKey].fmt = "json"
    /\ keyring0[tokenKey].expiry = now
    /\ pc = "returned"
    /\ ret.kind = "token"

\* C3: when getToken has returned after starting the responder, and no
\* shutdown it started is still to run, server.Shutdown has been called
\* exactly once and the server is closed.
C3_ResponderShutDownOnce ==
    (/\ pc = "returned"
     /\ hist.serverStarts > 0
     /\ hist.shutdownSpawned = hist.shutdownCalls) =>
        /\ hist.shutdownCalls = 1
        /\ server = "closed"

\* The blocking waits: the select of getConfig, the select of getToken
\* and the request of config.Exchange.
BlockedWaits == {"cfg_parked", "gt_parked", "gt_exchanging"}

\* C8: when cancel() runs while the flow is blocked in one of the three
\* waits, no token is returned or stored, and the blocked function
\* eventually returns an error.
C8_CancelUnblocks ==
    [](cancelAt \in BlockedWaits =>
          /\ ret.kind # "token"
          /\ keyring[tokenKey] = keyring0[tokenKey]
          /\ <>(IF cancelAt = "cfg_parked" THEN cfgRet = "error"
                                            ELSE ret.kind = "error"))

C8_Witness ==
    /\ cancelAt = "gt_parked"
    /\ pc = "returned"
    /\ ret = RetError("context canceled")

\* C9: with a fresh cached token, getToken returns that token and has not
\* bound a listener, started the responder, opened the browser, called the
\* exchange or written the keyring.
C9_FreshCacheReturned ==
    (FreshCache /\ pc = "returned") =>
        /\ ret = RetToken(Unmarshal(keyring0[tokenKey]))
        /\ hist.listens = 0
        /\ hist.serverStarts = 0
        /\ hist.browserOpens = 0
        /\ hist.exchangeCalls = 0
        /\ hist.tokenSets = 0
        /\ keyring[tokenKey] = keyring0[tokenKey]

\* C17: from the choice of the port until the responder is torn down the
\* port is bound by this process: it is never free for another process to
\* bind, and the server never fails to bind it.
C17_PortHeldUntilTeardown ==
    PortState \in {"unchosen", "bound", "released"}

\* C18: the handler runs for at most one callback request of an attempt,
\* and for none once getToken has returned.
C18_ResponderSingleUse ==
    /\ callbacks <= 1
    /\ hist.late = 0

\* The handler goroutines blocked in a send on codeChan or errChan (the
\* server goroutine's own send on errChan is the value "server error").
BlockedHandlers ==
    Len(codeChan)
    + Cardinality({i \in 1..Len(errChan) : errChan[i] # "server error"})

\* C21: no handler is left blocked in its send: once getToken has returned,
\* when nothing receives from codeChan or errChan any more, every send of a
\* handler has been received.
C21_HandlerSendsReceived ==
    pc \in Terminal => BlockedHandlers = 0

\* C22: with no client secret stored, getConfig does not wait for ever on
\* inputChan and errChan: it is never parked in its select, the context not
\* cancelled, when the goroutine reading standard input has finished and
\* nothing is left to receive.
C22_GetConfigReturnsOnEveryInput ==
    ~(/\ pc = "cfg_parked"
      /\ stdin = "exited"
      /\ inputChan = <<>>
      /\ cfgErrChan = <<>>
      /\ ~cancelled)

\* C10: a freshly exchanged token is returned only once it is stored in the
\* keyring; the token entry is written only after a successful exchange;
\* a failed exchange or a failed store makes getToken return an error, and
\* a failed exchange leaves the keyring as it was.
C10_ReturnOnlyAfterStore ==
    /\ (ret.kind = "token" /\ hist.exchangeCalls > 0) =>
          /\ hist.store = "ok"
          /\ keyring[tokenKey] = Marshal(ret.tok)
    /\ (hist.tokenSets > 0 \/ keyring[tokenKey] # keyring0[tokenKey]) =>
          hist.exchange = "ok"
    /\ hist.exchange = "fail" =>
          /\ keyring[tokenKey] = keyring0[tokenKey]
          /\ pc \in {"returned"}
          /\ ret.kind = "error"
    /\ hist.store = "fail" =>
          /\ pc = "returned"
          /\ ret.kind = "error"

C10_Witness ==
    /\ pc = "returned"
    /\ ret.kind = "token"
    /\ hist.exchange = "ok"
    /\ keyring[tokenKey] = Marshal(ret.tok)
    /\ keyring[tokenKey] # keyring0[tokenKey]

(***************************************************************************)
(* Time.  The clock counts units of which UnitsPerDay make a day, from     *)
(* 00:00 UTC of day 0.  A time.Time is an instant and the offset of its    *)
(* zone; a calendar.EventDateTime holds a DateTime (RFC 3339: a wall clock *)
(* and its offset) or, for an all-day event, a Date.                       *)
(***************************************************************************)
Time(instant, off) == [instant |-> instant, off |-> off]

\* calendar.EventDateTime values.
Timed(wall, off) == [kind |-> "dateTime", v |-> wall, off |-> off]
AllDay(day) == [kind |-> "date", v |-> day, off |-> 0]
\* A DateTime that is not RFC 3339, and an empty DateTime with a Date that
\* is not a date.
BadDateTime == [kind |-> "badDateTime", v |-> 0, off |-> 0]
BadDate == [kind |-> "badDate", v |-> 0, off |-> 0]

Event(start, end) == [Start |-> start, End |-> end]

\* time.LoadLocation(timezone): the names it knows.
Locations == {"UTC", "East", "DST"}
LoadLocationOk(tz) == tz \in Locations
\* The offset of the zone at the midnight that begins a day: fixed, or (for
\* "DST") one unit more from day 1 on.
LocOffset(tz, day) ==
    CASE tz = "East" -> 1
      [] tz = "DST" -> IF day >= 1 THEN 1 ELSE 0
      [] OTHER -> 0

\* time.Parse(time.RFC3339, x.DateTime): the error and the time.
ParseOk(x) == x.kind \in {"dateTime", "date"}
ParseRFC3339(x) == Time(x.v - x.off, x.off)
\* time.ParseInLocation("2006-01-02", x.Date, loc): midnight in loc.
ParseDateInLocation(x, tz) ==
    Time(x.v * UnitsPerDay - LocOffset(tz, x.v), LocOffset(tz, x.v))
\* time.Parse("2006-01-02", x.Date): midnight UTC.
ParseDate(x) == Time(x.v * UnitsPerDay, 0)

\* t.Format("2006-01-02"): the calendar day of t in its zone.
DateKey(t) == (t.instant + t.off) \div UnitsPerDay
\* t.AddDate(0, 0, 1)
AddDay(t) == Time(t.instant + UnitsPerDay, t.off)
\* t.Before(u)
Before(t, u) == t.instant < u.instant
\* t.Sub(u)
Sub(t, u) == t.instant - u.instant
\* t.Equal(u)
Equal(t, u) == t.instant = u.instant
\* t.AddDate(0, 0, days)
AddDate(t, days) == Time(t.instant + days * UnitsPerDay, t.off)

\* time.Weekday: day 0 of the clock is a Monday.
Sunday == 0
Monday == 1
Weekday(t) == (DateKey(t) + Monday) % 7

\* time.Date(t.Year(), t.Month(), t.Day(), 0, 0, 0, 0, t.Location())
StartOfDay(t) == Time(DateKey(t) * UnitsPerDay - t.off, t.off)
\* time.Date(t.Year(), t.Month(), t.Day(), 23, 59, 59, 0, t.Location()): the
\* last tick of the day.
EndOfDay(t) == Time(DateKey(t) * UnitsPerDay + (UnitsPerDay - 1) - t.off, t.off)
\* time.Now().UTC()
UTC(instant) == Time(instant, 0)

(***************************************************************************)
(* main: the query window (src/main.go:528-541).                           *)
(***************************************************************************)
RECURSIVE BackToMonday(_)
\* for now.Weekday() != time.Monday { now = now.AddDate(0, 0, -1) }
BackToMonday(t) ==
    IF Weekday(t) # Monday THEN BackToMonday(AddDate(t, -1)) ELSE t

RECURSIVE ForwardToSunday(_)
\* for end.Weekday() != time.Sunday { end = end.AddDate(0, 0, 1) }
ForwardToSunday(t) ==
    IF Weekday(t) # Sunday THEN ForwardToSunday(AddDate(t, 1)) ELSE t

\* end := now.AddDate(0, 0, cfg.WeeksAhead*7), moved on to Sunday 23:59:59.
WindowEnd(start, weeks) ==
    EndOfDay(ForwardToSunday(AddDate(start, weeks * 7)))

\* The start moved on to the Monday that follows instead of back.
WindowStartNext(t) ==
    StartOfDay(IF Weekday(UTC(t)) # Monday
                 THEN AddDate(BackToMonday(UTC(t)), 7) ELSE UTC(t))

\* now := time.Now().UTC(), moved back to Monday 00:00.
WindowStart(t) == StartOfDay(BackToMonday(UTC(t)))

\* main's now and end.
QueryWindow(t, weeks) ==
    [now |-> WindowStart(t), end |-> WindowEnd(WindowStart(t), weeks)]

(***************************************************************************)
(* getOutOfOfficeEvents (src/main.go:425-476).                             *)
(***************************************************************************)
\* The start or end of an event as the filter reads it (src/main.go:450-468).
FilterTime(x, tz) ==
    IF x.kind = "dateTime" THEN ParseRFC3339(x) ELSE ParseDateInLocation(x, tz)

\* The comparison with the boundary left out.
LongerThan(d, min) == d > min

\* end.Sub(start) >= minDuration
AtLeast(d, min) == d >= min

\* One iteration of the loop keeps the event or drops it.
Retained(event, min, tz) ==
    /\ ParseOk(event.Start)
    /\ ParseOk(event.End)
    /\ AtLeast(Sub(FilterTime(event.End, tz), FilterTime(event.Start, tz)), min)

RECURSIVE FilterLoop(_, _, _, _)
\* The loop over events.Items, appending to filteredEvents.
FilterLoop(items, min, tz, filteredEvents) ==
    IF items = <<>> THEN filteredEvents
    ELSE FilterLoop(Tail(items), min, tz,
                    IF Retained(Head(items), min, tz)
                      THEN Append(filteredEvents, Head(items))
                      ELSE filteredEvents)

\* getOutOfOfficeEvents, given whether Events.List succeeded and what it
\* returned: the events and the error.
GetOutOfOfficeEvents(listOk, items, min, tz) ==
    IF ~listOk THEN [events |-> <<>>, err |-> "unable to retrieve events"]
    ELSE IF ~LoadLocationOk(tz) THEN [events |-> <<>>, err |-> "invalid timezone"]
    ELSE [events |-> FilterLoop(items, min, tz, <<>>), err |-> ""]

\* The events the provider may return: timed events whose length is within
\* one unit of a whole number of days, all-day events, and events whose
\* start or end does not parse.
Durations == {k * UnitsPerDay + j : k \in 1..MaxDays, j \in {-1, 0, 1}}
TimedEvents == {Event(Timed(1, 0), Timed(1 + d, 0)) : d \in Durations}
AllDayEvents == {Event(AllDay(d), AllDay(d + n)) : d \in 0..1, n \in 1..MaxDays}
UnparsedEvents == {Event(BadDateTime, Timed(2 * UnitsPerDay, 0)),
                   Event(AllDay(0), BadDate)}
ProviderEvents == TimedEvents \cup AllDayEvents \cup UnparsedEvents

RECURSIVE SeqsUpTo(_, _)
\* The sequences over S of length at most n.
SeqsUpTo(S, n) ==
    IF n = 0 THEN {<<>>}
    ELSE LET shorter == SeqsUpTo(S, n - 1)
         IN  shorter \cup {Append(q, x) : q \in shorter, x \in S}

MinDurations == {k * UnitsPerDay : k \in 1..MaxDays}

FilterInit ==
    /\ fin \in [listOk : BOOLEAN,
                items : SeqsUpTo(ProviderEvents, MaxItems),
                minDuration : MinDurations,
                timezone : Locations \cup {"invalid"}]
    /\ fout = Pending
    /\ AuthIdle
    /\ AggIdle

\* getOutOfOfficeEvents is called and returns.
FilterCall ==
    /\ fout = Pending
    /\ fout' = GetOutOfOfficeEvents(fin.listOk, fin.items, fin.minDuration,
                                    fin.timezone)
    /\ UNCHANGED <<fin, authVars, aggVars, flagVars>>

FilterNext == FilterCall

SpecFilter == FilterInit /\ [][FilterNext]_vars

\* The length of an event as the filter computes it.
Duration(event, tz) ==
    Sub(FilterTime(event.End, tz), FilterTime(event.Start, tz))

\* C6: the list getOutOfOfficeEvents returns holds exactly the parsed
\* events with end - start >= minDuration, in the provider's order.
C6_RetainedIffLongEnough ==
    fout.err = "" =>
        /\ fout.events =
              SelectSeq(fin.items,
                        LAMBDA e : /\ ParseOk(e.Start) /\ ParseOk(e.End)
                                   /\ Duration(e, fin.timezone) >= fin.minDuration)
        /\ \A i \in 1..Len(fin.items) :
              (ParseOk(fin.items[i].Start) /\ ParseOk(fin.items[i].End)) =>
                 ((Duration(fin.items[i], fin.timezone) < fin.minDuration)
                     <=> (\A j \in 1..Len(fout.events) :
                             fout.events[j] # fin.items[i]))

\* An event exactly minDuration long is returned and a shorter one is not.
C6_Witness ==
    /\ fout.err = ""
    /\ Len(fin.items) = 2
    /\ ParseOk(fin.items[1].Start) /\ ParseOk(fin.items[1].End)
    /\ Duration(fin.items[1], fin.timezone) = fin.minDuration - 1
    /\ ParseOk(fin.items[2].Start) /\ ParseOk(fin.items[2].End)
    /\ Duration(fin.items[2], fin.timezone) = fin.minDuration
    /\ fout.events = <<fin.items[2]>>

(***************************************************************************)
(* Properties of the query window.                                         *)
(***************************************************************************)
\* The ticks of a week.
WeekUnits == 7 * UnitsPerDay

C19_WindowOrdered ==
    aggPc = "freebusy" =>
        /\ window.now.instant <= window.end.instant
        /\ Weekday(window.now) = Monday
        /\ window.now = StartOfDay(window.now)
        /\ Weekday(window.end) = Sunday
        /\ window.end = EndOfDay(window.end)

(***************************************************************************)
(* displayCalendar: the presence grid (src/main.go:320-357).               *)
(***************************************************************************)
\* The start or end of an event as displayCalendar reads it
\* (src/main.go:330-346).
DisplayTime(x) ==
    IF x.kind = "dateTime" THEN ParseRFC3339(x) ELSE ParseDate(x)

RECURSIVE SpanDates(_, _)
\* for d := start; d.Before(end); d = d.AddDate(0, 0, 1): the date keys.
SpanDates(d, end) ==
    IF Before(d, end) THEN {DateKey(d)} \cup SpanDates(AddDay(d), end) ELSE {}

\* The dates one event marks; none when its start or end does not parse.
EventDates(event) ==
    IF ParseOk(event.Start) /\ ParseOk(event.End)
      THEN SpanDates(DisplayTime(event.Start), DisplayTime(event.End))
      ELSE {}

\* eventsByDate, as the set of <<date, person>> with eventsByDate[date][person].
EventsByDate(byPerson) ==
    UNION {UNION {{<<date, person>> : date \in EventDates(byPerson[person][i])} :
                     i \in 1..Len(byPerson[person])} :
              person \in DOMAIN byPerson}

(***************************************************************************)
(* displayCalendar: the week loop (src/main.go:359-420).                   *)
(***************************************************************************)
\* startDate: timeMin moved back to a Monday (src/main.go:360-363).
StartDate(timeMin) == BackToMonday(timeMin)

\* The loop over the days of a week with its last day left out.
WeekIndicesShort == 0..5

\* for i := 0; i < 7; i++
WeekIndices == 0..6

\* peopleThisWeek: the people the grid marks on one of the seven dates from
\* currentDate (src/main.go:380-386).
PeopleThisWeek(grid, d) ==
    {q[2] : q \in {g \in grid : \E i \in WeekIndices :
                                    g[1] = DateKey(AddDate(d, i))}}

\* The orders in which a range loop may visit the keys of a map.
Orders(S) ==
    {q \in [1..Cardinality(S) -> S] :
        \A i, j \in 1..Cardinality(S) : q[i] = q[j] => i = j}

RECURSIVE Insert(_, _)
\* x put before the first element of a sorted slice that is not smaller.
Insert(x, sorted) ==
    IF sorted = <<>> THEN <<x>>
    ELSE IF x <= Head(sorted) THEN <<x>> \o sorted
    ELSE <<Head(sorted)>> \o Insert(x, Tail(sorted))

RECURSIVE Sorted(_)
Sorted(people) ==
    IF people = <<>> THEN <<>>
    ELSE Insert(Head(people), Sorted(Tail(people)))

\* The slice left in the order the range loop filled it.
Unsorted(people) == people

\* sort.Strings(people)
SortStrings(people) == Sorted(people)

\* One person's row: the name and the marker of each of the seven days
\* (src/main.go:399-414).
Row(grid, d, person) ==
    [person |-> person,
     marks |-> [i \in 1..7 |->
                  (i - 1) \in WeekIndices
                  /\ <<DateKey(AddDate(d, i - 1)), person>> \in grid]]

\* One week block: the header's two dates, then "No OOO Events" or the rows
\* of the people in sorted order; order is the order in which the range
\* loop over peopleThisWeek filled the slice (src/main.go:368-416).
WeekBlock(grid, d, order) ==
    LET people == SortStrings(order) IN
    [start |-> DateKey(d),
     end |-> DateKey(AddDate(d, 6)),
     noEvents |-> Len(people) = 0,
     rows |-> [k \in 1..Len(people) |-> Row(grid, d, people[k])]]

\* currentDate.Before(timeMax) || currentDate.Equal(timeMax)
InWindow(d, timeMax) == Before(d, timeMax) \/ Equal(d, timeMax)

(***************************************************************************)
(* main: getGroupFreebusy, the fan-out of one goroutine per calendar, the  *)
(* join and displayCalendar (src/main.go:543-572).                         *)
(***************************************************************************)
\* What the provider may hold for a calendar: a short and a long timed
\* event, or one all-day event, or a short timed event only.
ItemChoices ==
    {<<Event(Timed(2, 0), Timed(2 + UnitsPerDay - 1, 0)),
       Event(Timed(2, 0), Timed(2 + 2 * UnitsPerDay - 1, 0))>>,
     <<Event(AllDay(1), AllDay(2))>>,
     <<Event(Timed(2, 0), Timed(2 + UnitsPerDay - 1, 0))>>}

\* main computing its window on its own: any tick of the first days of the
\* clock, any value of the flag.
Clocks == 0..(MaxClockDays * UnitsPerDay - 1)
WeeksFlags == (0 - MaxWeeks)..MaxWeeks

\* The flag and the clock of the runs of main: with --weeks 1, on the
\* Wednesday of the week that begins on day 0.
AggWeeks == {1}
AggClocks == {2 * UnitsPerDay + 1}

AggInit ==
    /\ providerItems \in [Members -> ItemChoices]
    /\ minDuration = UnitsPerDay
    /\ timezone \in {"UTC", "invalid"}
    /\ aggPc = "window"
    /\ calendars = {}
    /\ toSpawn = {}
    /\ task = [m \in Members |-> "none"]
    /\ events = [m \in Members |-> Pending]
    /\ mu = 0
    /\ wg = 0
    /\ eventsByPerson = <<>>
    /\ eventsByDate = {}
    /\ weeksAhead \in AggWeeks
    /\ clock \in AggClocks
    /\ window = NoWindow
    /\ currentDate = Time(0, 0)
    /\ output = <<>>
    /\ calls = 1
    /\ AuthIdle
    /\ FilterIdle

\* main computes the query window (src/main.go:528-541).
Window ==
    /\ aggPc = "window"
    /\ window' = QueryWindow(clock, weeksAhead)
    /\ aggPc' = "freebusy"
    /\ UNCHANGED <<providerItems, minDuration, timezone, calendars, toSpawn,
                   task, events, mu, wg, eventsByPerson, eventsByDate,
                   weeksAhead, clock, currentDate, output, calls, authVars,
                   filterVars, flagVars>>

\* The check of len(resp.Calendars) left out.
AfterFreebusyUnchecked(found) == "spawn"

\* Where main goes when the query has answered: getGroupFreebusy returns
\* an error for no calendars, and main ends the run on an error.
AfterFreebusy(found) == IF found = {} THEN "fatal" ELSE "spawn"

\* getGroupFreebusy (src/main.go:286-311) and main's check of its error:
\* the query fails, or resolves no calendar, or resolves some.
Freebusy ==
    /\ aggPc = "freebusy"
    /\ \/ /\ aggPc' = "fatal"
          /\ UNCHANGED <<calendars, toSpawn>>
       \/ \E found \in SUBSET Members :
             /\ calendars' = found
             /\ toSpawn' = found
             /\ aggPc' = AfterFreebusy(found)
    /\ UNCHANGED <<providerItems, minDuration, timezone, task, events, mu, wg,
                   eventsByPerson, eventsByDate, authVars, filterVars, flagVars, renderVars>>

\* One iteration of the range loop: wg.Add(1) and the go statement.
Spawn ==
    /\ aggPc = "spawn"
    /\ toSpawn # {}
    /\ \E email \in toSpawn :
          /\ wg' = wg + 1
          /\ task' = [task EXCEPT ![email] = "fetch"]
          /\ toSpawn' = toSpawn \ {email}
    /\ UNCHANGED <<providerItems, minDuration, timezone, aggPc, calendars,
                   events, mu, eventsByPerson, eventsByDate, authVars,
                   filterVars, flagVars, renderVars>>

\* The return on an error of getOutOfOfficeEvents left out.
AfterFetchUnchecked(err) == "lock"

\* Where the goroutine goes when getOutOfOfficeEvents has returned.
AfterFetch(err) == IF err # "" THEN "exit" ELSE "lock"

\* The goroutine's call of getOutOfOfficeEvents.
TaskFetch(email) ==
    /\ task[email] = "fetch"
    /\ \E listOk \in BOOLEAN :
          LET r == GetOutOfOfficeEvents(listOk, providerItems[email],
                                        minDuration, timezone) IN
          /\ events' = [events EXCEPT ![email] = r]
          /\ task' = [task EXCEPT ![email] = AfterFetch(r.err)]
    /\ UNCHANGED <<providerItems, minDuration, timezone, aggPc, calendars,
                   toSpawn, mu, wg, eventsByPerson, eventsByDate, authVars,
                   filterVars, flagVars, renderVars>>

\* A lock that never makes its caller wait.
LockNeverWaits(holder) == TRUE

\* mu.Lock() returns when no goroutine holds the mutex.
LockFree(holder) == holder = 0

\* mu.Lock()
TaskLock(email) ==
    /\ task[email] = "lock"
    /\ LockFree(mu)
    /\ mu' = email
    /\ task' = [task EXCEPT ![email] = "write"]
    /\ UNCHANGED <<providerItems, minDuration, timezone, aggPc, calendars,
                   toSpawn, events, wg, eventsByPerson, eventsByDate, authVars,
                   filterVars, flagVars, renderVars>>

\* eventsByPerson[email] = events
TaskWrite(email) ==
    /\ task[email] = "write"
    /\ eventsByPerson' =
          [p \in DOMAIN eventsByPerson \cup {email} |->
              IF p = email THEN events[email].events ELSE eventsByPerson[p]]
    /\ task' = [task EXCEPT ![email] = "unlock"]
    /\ UNCHANGED <<providerItems, minDuration, timezone, aggPc, calendars,
                   toSpawn, events, mu, wg, eventsByDate, authVars, filterVars, flagVars, renderVars>>

\* mu.Unlock()
TaskUnlock(email) ==
    /\ task[email] = "unlock"
    /\ mu' = 0
    /\ task' = [task EXCEPT ![email] = "exit"]
    /\ UNCHANGED <<providerItems, minDuration, timezone, aggPc, calendars,
                   toSpawn, events, wg, eventsByPerson, eventsByDate, authVars,
                   filterVars, flagVars, renderVars>>

\* The deferred wg.Done() as the goroutine returns.
TaskDone(email) ==
    /\ task[email] = "exit"
    /\ wg' = wg - 1
    /\ task' = [task EXCEPT ![email] = "done"]
    /\ UNCHANGED <<providerItems, minDuration, timezone, aggPc, calendars,
                   toSpawn, events, mu, eventsByPerson, eventsByDate, authVars,
                   filterVars, flagVars, renderVars>>

\* The loop is over and main calls wg.Wait().
Join ==
    /\ aggPc = "spawn"
    /\ toSpawn = {}
    /\ aggPc' = "wait"
    /\ UNCHANGED <<providerItems, minDuration, timezone, calendars, toSpawn,
                   task, events, mu, wg, eventsByPerson, eventsByDate,
                   authVars, filterVars, flagVars, renderVars>>

\* wg.Wait() left out.
NoWait(counter) == TRUE

\* wg.Wait() returns when the counter is zero.
WaitReturns(counter) == counter = 0

Wait ==
    /\ aggPc = "wait"
    /\ WaitReturns(wg)
    /\ aggPc' = "display"
    /\ UNCHANGED <<providerItems, minDuration, timezone, calendars, toSpawn,
                   task, events, mu, wg, eventsByPerson, eventsByDate,
                   authVars, filterVars, flagVars, renderVars>>

\* displayCalendar(eventsByPerson, now, end) is called: it reads the mapping,
\* builds the grid and finds the Monday to start from.
Display ==
    /\ aggPc = "display"
    /\ calls > 0
    /\ calls' = calls - 1
    /\ eventsByDate' = EventsByDate(eventsByPerson)
    /\ currentDate' = StartDate(window.now)
    /\ output' = Append(output, <<>>)
    /\ aggPc' = "weeks"
    /\ UNCHANGED <<providerItems, minDuration, timezone, calendars, toSpawn,
                   task, events, mu, wg, eventsByPerson, weeksAhead, clock,
                   window, authVars, filterVars, flagVars>>

\* One iteration of the week loop: a block is printed.
DisplayWeek ==
    /\ aggPc = "weeks"
    /\ InWindow(currentDate, window.end)
    /\ \E order \in Orders(PeopleThisWeek(eventsByDate, currentDate)) :
          output' = [output EXCEPT ![Len(output)] =
                        Append(@, WeekBlock(eventsByDate, currentDate, order))]
    /\ currentDate' = AddDate(currentDate, 7)
    /\ UNCHANGED <<providerItems, minDuration, timezone, aggPc, calendars,
                   toSpawn, task, events, mu, wg, eventsByPerson, eventsByDate,
                   weeksAhead, clock, window, calls, authVars, filterVars,
                   flagVars>>

\* The week loop is over and displayCalendar returns.
DisplayReturn ==
    /\ aggPc = "weeks"
    /\ ~InWindow(currentDate, window.end)
    /\ aggPc' = "displayed"
    /\ UNCHANGED <<providerItems, minDuration, timezone, calendars, toSpawn,
                   task, events, mu, wg, eventsByPerson, eventsByDate,
                   renderVars, authVars, filterVars, flagVars>>

\* The exit status of the process: log.Fatalf exits with 1, main returning
\* with 0; -1 while the process runs.
ExitStatus(p) ==
    IF p = "fatal" THEN 1 ELSE IF p = "displayed" THEN 0 ELSE -1

\* The parts of main after the window, not started; the provider holds no
\* event.
FanOutIdle ==
    /\ providerItems = [m \in Members |-> <<>>]
    /\ minDuration = UnitsPerDay /\ timezone = "UTC"
    /\ calendars = {} /\ toSpawn = {}
    /\ task = [m \in Members |-> "none"]
    /\ events = [m \in Members |-> Pending]
    /\ mu = 0 /\ wg = 0 /\ eventsByPerson = <<>>
    /\ eventsByDate = {}

WindowInit ==
    /\ aggPc = "window"
    /\ clock \in Clocks
    /\ weeksAhead \in WeeksFlags
    /\ window = NoWindow
    /\ currentDate = ZeroTime
    /\ output = <<>>
    /\ calls = 1
    /\ FanOutIdle
    /\ AuthIdle
    /\ FilterIdle

WindowNext == Window

SpecWindow == WindowInit /\ [][WindowNext]_vars

\* displayCalendar called on its own.  The mapping gives every person no
\* event, an all-day event on the Thursday or on the Tuesday of the first
\* week, or a timed event from the Sunday noon of the first week into the
\* Tuesday of the second.
RenderItems ==
    {<<>>,
     <<Event(AllDay(3), AllDay(4))>>,
     <<Event(AllDay(1), AllDay(2))>>,
     <<Event(Timed(6 * UnitsPerDay + 2, 0), Timed(8 * UnitsPerDay + 1, 0))>>}

\* timeMin is a Monday midnight or the middle of a Wednesday; timeMax is the
\* last tick of a Sunday or a Monday midnight.
RenderWindows ==
    {[now |-> Time(a, 0), end |-> Time(b, 0)] :
        a \in {0, 2 * UnitsPerDay + 1, 7 * UnitsPerDay},
        b \in {7 * UnitsPerDay - 1, 7 * UnitsPerDay, 14 * UnitsPerDay - 1}}

RenderInit ==
    /\ aggPc = "display"
    /\ eventsByPerson \in [Members -> RenderItems]
    /\ window \in RenderWindows
    /\ calls = MaxRenders
    /\ output = <<>>
    /\ currentDate = ZeroTime
    /\ eventsByDate = {}
    /\ weeksAhead = 0 /\ clock = 0
    /\ providerItems = <<>> /\ minDuration = 0 /\ timezone = "UTC"
    /\ calendars = {} /\ toSpawn = {}
    /\ task = [m \in Members |-> "none"]
    /\ events = [m \in Members |-> Pending]
    /\ mu = 0 /\ wg = 0
    /\ AuthIdle
    /\ FilterIdle

\* displayCalendar is called again with the same arguments.
DisplayAgain ==
    /\ aggPc = "displayed"
    /\ calls > 0
    /\ aggPc' = "display"
    /\ UNCHANGED <<providerItems, minDuration, timezone, calendars, toSpawn,
                   task, events, mu, wg, eventsByPerson, eventsByDate,
                   renderVars, authVars, filterVars, flagVars>>

RenderNext == Display \/ DisplayWeek \/ DisplayReturn \/ DisplayAgain

SpecRender == RenderInit /\ [][RenderNext]_vars

AggNext ==
    \/ Window \/ Freebusy \/ Spawn \/ Join \/ Wait
    \/ Display \/ DisplayWeek \/ DisplayReturn
    \/ \E email \in Members :
          \/ TaskFetch(email) \/ TaskLock(email) \/ TaskWrite(email)
          \/ TaskUnlock(email) \/ TaskDone(email)

SpecAgg == AggInit /\ [][AggNext]_vars

\* main's runs together with the calls of displayCalendar on its own.
SpecAggRender == (AggInit \/ RenderInit) /\ [][AggNext \/ RenderNext]_vars

(***************************************************************************)
(* Properties of the aggregation and of the presence grid.                 *)
(***************************************************************************)
\* The member-fetch goroutines whose getOutOfOfficeEvents returned an error.
FailedFetches == {m \in calendars : events[m].err \notin {"", "pending"}}

\* C4: a failed fetch does not end the run, and when main has passed the
\* join, the mapping has a key for exactly the resolved members whose fetch
\* succeeded, each mapped to the events of that member at least minDuration
\* long, and none for a member whose fetch failed.
C4_FailedFetchOnlyDropsItsMember ==
    /\ FailedFetches # {} => aggPc # "fatal"
    /\ aggPc \in {"display", "weeks", "displayed"} =>
        /\ DOMAIN eventsByPerson = {m \in calendars : events[m].err = ""}
        /\ DOMAIN eventsByPerson \cap FailedFetches = {}
        /\ \A m \in DOMAIN eventsByPerson :
              eventsByPerson[m] =
                 SelectSeq(providerItems[m],
                           LAMBDA e : /\ ParseOk(e.Start) /\ ParseOk(e.End)
                                      /\ Duration(e, timezone) >= minDuration)

\* One of three fetches failed and the run reached displayCalendar with
\* the other two members in the mapping.
C4_Witness ==
    /\ aggPc = "displayed"
    /\ Cardinality(calendars) = 3
    /\ Cardinality(FailedFetches) = 1
    /\ Cardinality(DOMAIN eventsByPerson) = 2

\* C5: whenever main is at or past the call of displayCalendar, every
\* goroutine spawned for a resolved calendar has finished, and every
\* resolved calendar had one spawned.
C5_DisplayOnlyAfterJoin ==
    aggPc \in {"display", "weeks", "displayed"} =>
        /\ toSpawn = {}
        /\ \A m \in calendars : task[m] = "done"
        /\ wg = 0

\* displayCalendar ran after goroutines that succeeded and that failed.
C5_Witness ==
    /\ aggPc = "displayed"
    /\ Cardinality(calendars) >= 2
    /\ FailedFetches # {}
    /\ DOMAIN eventsByPerson # {}
    /\ \A m \in calendars : task[m] = "done"

\* The dates the grid may hold.
GridDates == 0..(MaxDays + 2)

\* C7: for every event in the mapping, the grid marks the person on every
\* date that intersects [start, end), and the event does not mark the date
\* of an end that falls at midnight.
C7_GridMarksEveryDateOfSpan ==
    aggPc = "displayed" =>
        \A p \in DOMAIN eventsByPerson :
           \A i \in 1..Len(eventsByPerson[p]) :
              LET ev == eventsByPerson[p][i]
                  start == DisplayTime(ev.Start)
                  end == DisplayTime(ev.End)
                  startWall == start.instant + start.off
                  endWall == end.instant + start.off
              IN  /\ \A date \in GridDates :
                        (/\ date * UnitsPerDay < endWall
                         /\ (date + 1) * UnitsPerDay > startWall) =>
                            <<date, p>> \in eventsByDate
                  /\ (endWall % UnitsPerDay = 0) =>
                        (endWall \div UnitsPerDay) \notin EventDates(ev)

\* The events of a member's calendar that pass the filter.
RetainedOf(m) ==
    SelectSeq(providerItems[m],
              LAMBDA e : /\ ParseOk(e.Start) /\ ParseOk(e.End)
                         /\ Duration(e, timezone) >= minDuration)

\* C11: the run ends with a non-zero exit status, having spawned no
\* goroutine and printed no week block, exactly when the free/busy query
\* failed or resolved no calendar; with a calendar resolved the run does not
\* end so, and when no resolved member has a retained event it ends with
\* status 0 and every week block printed is "No OOO Events".
C11_NoCalendarsIsFatal ==
    /\ aggPc = "fatal" =>
          /\ ExitStatus(aggPc) = 1
          /\ calendars = {}
          /\ \A m \in Members : task[m] = "none"
          /\ wg = 0
          /\ output = <<>>
    /\ (calendars = {} /\ aggPc \notin {"window", "freebusy"}) =>
          aggPc = "fatal"
    /\ (aggPc = "displayed" /\ \A m \in calendars : RetainedOf(m) = <<>>) =>
          /\ ExitStatus(aggPc) = 0
          /\ calendars # {}
          /\ Len(output) = 1
          /\ \A k \in 1..Len(output[1]) :
                output[1][k].noEvents /\ output[1][k].rows = <<>>

\* Three calendars, every fetch succeeded and retained nothing: the run
\* ended with two week blocks, both "No OOO Events".
C11_Witness ==
    /\ aggPc = "displayed"
    /\ Cardinality(calendars) = MaxMembers
    /\ \A m \in calendars : events[m].err = "" /\ RetainedOf(m) = <<>>
    /\ DOMAIN eventsByPerson = calendars
    /\ Len(output) = 1
    /\ Len(output[1]) >= 2
    /\ \A k \in 1..Len(output[1]) : output[1][k].noEvents

\* C13: a run with --weeks N, N >= 1, prints exactly N week blocks, one
\* for each of N consecutive weeks, the first beginning on the Monday the
\* window starts on.
C13_WeeksBlocksPrinted ==
    (aggPc = "displayed" /\ weeksAhead >= 1) =>
        /\ Len(output) = 1
        /\ Len(output[1]) = weeksAhead
        /\ \A k \in 1..Len(output[1]) :
              /\ output[1][k].start = DateKey(window.now) + 7 * (k - 1)
              /\ output[1][k].end = output[1][k].start + 6

\* The people the grid marks on one of the seven dates from a date.
MarkedInWeek(first) ==
    {p \in Members : \E i \in 0..6 : <<first + i, p>> \in eventsByDate}

\* C14: every block printed has one row for each person the grid marks on
\* one of the block's seven dates and no other row, the rows in ascending
\* order of the person, the seven markers of a row being the person's
\* presence on the seven dates; a block with no such person is the line
\* "No OOO Events".
C14_BlockRows ==
    \A r \in 1..Len(output) : \A k \in 1..Len(output[r]) :
        LET b == output[r][k]
            P == MarkedInWeek(b.start)
        IN  /\ {b.rows[j].person : j \in 1..Len(b.rows)} = P
            /\ Len(b.rows) = Cardinality(P)
            /\ \A j \in 1..(Len(b.rows) - 1) :
                  b.rows[j].person < b.rows[j + 1].person
            /\ \A j \in 1..Len(b.rows) : \A i \in 1..7 :
                  b.rows[j].marks[i] <=>
                     <<b.start + (i - 1), b.rows[j].person>> \in eventsByDate
            /\ b.noEvents <=> P = {}

\* Person 1 is away on the Thursday and person 2 from the Sunday of the
\* first week; the first block lists 1 then 2 and marks the Thursday and
\* the Sunday, the second lists 2 alone, marked on the Monday.
C14_Witness ==
    /\ aggPc = "displayed"
    /\ window = [now |-> Time(0, 0), end |-> Time(14 * UnitsPerDay - 1, 0)]
    /\ Len(output) >= 1
    /\ Len(output[1]) = 2
    /\ Len(output[1][1].rows) = 2
    /\ output[1][1].rows[1].person = 1
    /\ output[1][1].rows[1].marks =
          <<FALSE, FALSE, FALSE, TRUE, FALSE, FALSE, FALSE>>
    /\ output[1][1].rows[2].person = 2
    /\ output[1][1].rows[2].marks =
          <<FALSE, FALSE, FALSE, FALSE, FALSE, FALSE, TRUE>>
    /\ Len(output[1][2].rows) = 1
    /\ output[1][2].rows[1].person = 2
    /\ output[1][2].rows[1].marks[1]

\* A block with nobody marked is printed as "No OOO Events".
C14_WitnessNoEvents ==
    /\ aggPc = "displayed"
    /\ Len(output) >= 1
    /\ Len(output[1]) = 2
    /\ ~output[1][1].noEvents
    /\ output[1][2].noEvents

\* The goroutines between their mu.Lock() and the return of mu.Unlock().
InCritical == {m \in Members : task[m] \in {"write", "unlock"}}

\* C16: a goroutine writes eventsByPerson only while it holds the mutex, at
\* most one goroutine is between Lock and Unlock, the holder is such a
\* goroutine (one that has gone on has released the mutex), and the mutex
\* is free when main is past the join.
C16_WritesExclusive ==
    /\ \A m \in InCritical : mu = m
    /\ Cardinality(InCritical) <= 1
    /\ mu # 0 => mu \in InCritical
    /\ \A m \in Members : task[m] \in {"exit", "done"} => mu # m
    /\ aggPc \in {"display", "weeks", "displayed"} => mu = 0

\* One goroutine is about to write while another waits in mu.Lock() and a
\* third has written and released.
C16_Witness ==
    /\ mu = 1
    /\ task[1] = "write"
    /\ task[2] = "lock"
    /\ task[3] = "done"
    /\ 3 \in DOMAIN eventsByPerson

\* The people of a set in ascending order.
Ascending(P) ==
    CHOOSE q \in [1..Cardinality(P) -> P] :
        \A i, j \in 1..Cardinality(P) : i < j => q[i] < q[j]

\* The one block that the grid determines for the week from a date.
BlockOf(first) ==
    LET q == Ascending(MarkedInWeek(first)) IN
    [start |-> first,
     end |-> first + 6,
     noEvents |-> MarkedInWeek(first) = {},
     rows |-> [k \in 1..Len(q) |->
                 [person |-> q[k],
                  marks |-> [i \in 1..7 |->
                               <<first + (i - 1), q[k]>> \in eventsByDate]]]]

\* The one rendering that the grid and the window determine: a block for
\* every week from the Monday at or before timeMin up to timeMax.
RenderingOf(w) ==
    LET day == w.now.instant \div UnitsPerDay
        from == w.now.instant - (day % 7) * UnitsPerDay
        n == IF w.end.instant < from THEN 0
             ELSE (w.end.instant - from) \div WeekUnits + 1
    IN  [k \in 1..n |-> BlockOf((day - (day % 7)) + 7 * (k - 1))]

\* C20: whatever the interleaving of the goroutines, once main is past the
\* join the mapping holds, for exactly the members whose fetch succeeded,
\* what that fetch returned; and every call of displayCalendar prints the
\* one rendering that the mapping's grid and the window determine, so that
\* two calls with the same arguments print the same.
C20_Deterministic ==
    /\ (calendars # {} /\ aggPc \in {"display", "weeks", "displayed"}) =>
          eventsByPerson =
             [m \in {c \in calendars : events[c].err = ""} |->
                 events[m].events]
    /\ aggPc = "displayed" =>
          /\ Len(output) >= 1
          /\ \A r \in 1..Len(output) : output[r] = RenderingOf(window)
          /\ \A r1, r2 \in 1..Len(output) : output[r1] = output[r2]

\* Three goroutines wrote the mapping and the week printed has a row for
\* each of the three members.
C20_Witness ==
    /\ aggPc = "displayed"
    /\ Cardinality(calendars) = MaxMembers
    /\ DOMAIN eventsByPerson = calendars
    /\ Len(output) = 1
    /\ Len(output[1]) >= 1
    /\ Len(output[1][1].rows) = MaxMembers

\* displayCalendar was called twice on a mapping with three people in the
\* same week.
C20_WitnessTwice ==
    /\ aggPc = "displayed"
    /\ calendars = {}
    /\ Len(output) = MaxRenders
    /\ Len(output[1]) >= 1
    /\ Len(output[1][1].rows) = MaxMembers

(***************************************************************************)
(* The program: one of its parts runs, the others stay idle.               *)
(***************************************************************************)
Init ==
    \/ ResetInit \/ AuthInit \/ FilterInit \/ WindowInit \/ AggInit
    \/ RenderInit

Next ==
    \/ ResetNext \/ AuthNext \/ FilterNext \/ WindowNext \/ AggNext
    \/ RenderNext

Spec == Init /\ [][Next]_vars

=============================================================================
